---- MODULE Spec2Model ----
(***************************************************************************)
(* Model of package fail (github.com/nbgo/fail): errors decorated with the *)
(* place of their creation, their cause chain and the queries over it.     *)
(*                                                                         *)
(* Error values live in a heap: a reference is an index into heap, Nil     *)
(* (0) is Go's nil error.  An object of a pointer type (ptr = TRUE) is     *)
(* identified by its index; an object of a value type is a struct held in  *)
(* an interface and compared field by field, as Go's == does.              *)
(***************************************************************************)
EXTENDS Integers, Sequences, FiniteSets, TLC

VARIABLES heap, q, stk, chain

vars == <<heap, q, stk, chain>>

-----------------------------------------------------------------------------
(* Bounds *)

MaxHeap == 3

MaxStackHeap == 2

MaxDepth == 2

MaxSkip == 1

-----------------------------------------------------------------------------
(* Values *)

Nil == 0

Refs == 1..Len(heap)

RefsOrNil == 0..Len(heap)

Texts == {<<"E", "1">>, <<"E", "2">>}

Formats == {<<"E", "%v">>}

FmtArgs == {"1", "2"}

Messages == {"R"}

\* the one text of the errors built in any order
OneText == {<<"E", "1">>}

OneArg == {"1"}

\* fmt.Sprintf(format, a) with every %v verb replaced by the argument
Sprintf(format, a) ==
  [i \in 1..Len(format) |-> IF format[i] = "%v" THEN a ELSE format[i]]

-----------------------------------------------------------------------------
(* Call stacks: frames innermost first; a frame is a return address. *)

Frame(file, line, fn, goroot) ==
  [file |-> file, line |-> line, fn |-> fn, goroot |-> goroot]

\* the zero stack.Call, returned when the skip runs past the stack
NoCall == Frame("", 0, "", FALSE)

LibFrame(fn, line) == Frame("fail.go", line, fn, FALSE)

UserFrames ==
  { Frame("fail_test.go", 40, "TestFail", FALSE),
    Frame("fail_test.go", 124, "TestFail.func", FALSE) }

RuntimeTail == << Frame("proc.go", 0, "runtime.goexit", TRUE) >>

MainStack == << Frame("fail_test.go", 40, "TestFail", FALSE) >> \o RuntimeTail

UserStacks ==
  UNION { [1..n -> UserFrames] : n \in 1..MaxDepth }

Stacks == { s \o RuntimeTail : s \in UserStacks }

\* stack.Caller(skip) called in the innermost frame of full
Caller(skip, full) ==
  IF skip >= 0 /\ skip + 1 <= Len(full) THEN full[skip + 1] ELSE NoCall

RECURSIVE TrimBelow(_, _)
\* CallStack.TrimBelow(c): drop the entries below (inside of) c
TrimBelow(cs, c) ==
  IF Len(cs) > 0 /\ cs[1] # c THEN TrimBelow(Tail(cs), c) ELSE cs

RECURSIVE TrimRuntime(_)
\* CallStack.TrimRuntime(): drop the outermost entries that are in GOROOT
TrimRuntime(cs) ==
  IF Len(cs) > 0 /\ cs[Len(cs)].goroot
  THEN TrimRuntime(SubSeq(cs, 1, Len(cs) - 1))
  ELSE cs

\* "%+v (%n)" of a stack.Call
FormatCall(c) == <<c.file, c.line, c.fn>>

\* StackTraceToString: one formatted call per line
StackTraceToString(stackTrace) ==
  [i \in 1..Len(stackTrace) |-> FormatCall(stackTrace[i])]

\* len(additionalStackSkip) > 0 ? base + additionalStackSkip[0] : base
StackSkip(base, additionalStackSkip) ==
  IF Len(additionalStackSkip) > 0 THEN base + additionalStackSkip[1] ELSE base

-----------------------------------------------------------------------------
(* Objects *)

Blank ==
  [kind |-> "nil", ptr |-> FALSE, text |-> <<>>, Message |-> "",
   Reason |-> Nil, originalError |-> Nil, innerError |-> Nil,
   location |-> NoCall, stackTrace |-> <<>>, wrapped |-> Nil]

\* errors.New(text): *errors.errorString
errorString(text) ==
  [Blank EXCEPT !.kind = "plain", !.ptr = TRUE, !.text = text]

\* ErrWithReason{message, reason}, or &ErrWithReason{...} when ptr
ErrWithReason(message, reason, ptr) ==
  [Blank EXCEPT !.kind = "reason", !.ptr = ptr, !.Message = message,
                !.Reason = reason]

\* &extendedError{err, inner, call, trace}
extendedError(err, inner, call, trace) ==
  [Blank EXCEPT !.kind = "ext", !.ptr = TRUE, !.originalError = err,
                !.innerError = inner, !.location = call, !.stackTrace = trace]

\* an ErrorWrapper of another package: OriginalError returns what it wraps
foreignWrapper(err) ==
  [Blank EXCEPT !.kind = "wrap", !.ptr = TRUE, !.wrapped = err]

-----------------------------------------------------------------------------
(* Constructors: each returns the heap after the call; the error it       *)
(* returns is the last object of that heap.  cs is the stack of the       *)
(* caller, its first frame being the call site.                           *)

ErrorsNew(h, text) == Append(h, errorString(text))

NewWithInner(h, err, inner, additionalStackSkip, cs) ==
  LET stackSkip == StackSkip(1, additionalStackSkip)
      call  == Caller(stackSkip, <<LibFrame("fail.NewWithInner", 135)>> \o cs)
      trace == <<LibFrame("fail.NewWithInner", 136)>> \o cs
  IN  Append(h, extendedError(err, inner, call,
                              TrimRuntime(TrimBelow(trace, call))))

\* slip: New does not count its own frame
New_OwnFrameNotSkipped(h, err, additionalStackSkip, cs) ==
  LET stackSkip == StackSkip(0, additionalStackSkip)
  IN  NewWithInner(h, err, Nil, <<stackSkip>>,
                   <<LibFrame("fail.New", 122)>> \o cs)

New(h, err, additionalStackSkip, cs) ==
  LET stackSkip == StackSkip(1, additionalStackSkip)
  IN  NewWithInner(h, err, Nil, <<stackSkip>>,
                   <<LibFrame("fail.New", 122)>> \o cs)

NewErrWithReason(h, message, reason, cs) ==
  LET h1 == Append(h, ErrWithReason(message, reason, FALSE))
  IN  New(h1, Len(h1), <<1>>, <<LibFrame("fail.NewErrWithReason", 141)>> \o cs)

News(h, text, cs) ==
  LET h1 == ErrorsNew(h, text)
  IN  New(h1, Len(h1), <<1>>, <<LibFrame("fail.News", 227)>> \o cs)

Newf(h, format, a, cs) ==
  LET h1 == ErrorsNew(h, Sprintf(format, a))
  IN  New(h1, Len(h1), <<1>>, <<LibFrame("fail.Newf", 232)>> \o cs)

\* StackTrace(additionalStackSkip...): the rendered trace of the caller
StackTrace(additionalStackSkip, cs) ==
  LET stackSkip == StackSkip(1, additionalStackSkip)
      call  == Caller(stackSkip, <<LibFrame("fail.StackTrace", 258)>> \o cs)
      trace == <<LibFrame("fail.StackTrace", 259)>> \o cs
  IN  StackTraceToString(TrimRuntime(TrimBelow(trace, call)))

-----------------------------------------------------------------------------
(* Capability probing: which interfaces the dynamic type of r implements *)

\* err.(CompositeError)
IsCompositeError(r) == r # Nil /\ heap[r].kind \in {"ext", "reason"}

\* err.(ErrorWrapper)
IsErrorWrapper(r) == r # Nil /\ heap[r].kind \in {"ext", "wrap"}

\* err.(ErrorWithStackTrace), err.(ErrorWithLocation)
IsErrorWithStackTrace(r) == r # Nil /\ heap[r].kind = "ext"

RECURSIVE InterfaceEq(_, _)
\* Go's == on two error interface values
InterfaceEq(a, b) ==
  \/ a = b
  \/ /\ a # Nil /\ b # Nil
     /\ heap[a].kind = "reason" /\ heap[b].kind = "reason"
     /\ ~heap[a].ptr /\ ~heap[b].ptr
     /\ heap[a].Message = heap[b].Message
     /\ InterfaceEq(heap[a].Reason, heap[b].Reason)

-----------------------------------------------------------------------------
(* Methods *)

RECURSIVE InnerError(_)

ErrWithReason_InnerError(r) == heap[r].Reason

\* slip: the cause of the original is never asked for
extendedError_InnerError_StoredOnly(r) == heap[r].innerError

\* slip: a cause-bearing original decides, also when it has no cause
extendedError_InnerError_DelegationWins(r) ==
  LET originalError == heap[r].originalError
  IN  IF IsCompositeError(originalError)
      THEN InnerError(originalError)
      ELSE heap[r].innerError

\* slip: result = extErr where result = extErr.innerError is meant
extendedError_InnerError_ReturnsSelf(r) ==
  LET originalError == heap[r].originalError
      result == IF IsCompositeError(originalError)
                THEN InnerError(originalError)
                ELSE Nil
  IN  IF result = Nil THEN r ELSE result

extendedError_InnerError(r) ==
  LET originalError == heap[r].originalError
      result == IF IsCompositeError(originalError)
                THEN InnerError(originalError)
                ELSE Nil
  IN  IF result = Nil THEN heap[r].innerError ELSE result

\* dynamic dispatch of CompositeError.InnerError
InnerError(r) ==
  IF heap[r].kind = "ext"
  THEN extendedError_InnerError(r)
  ELSE ErrWithReason_InnerError(r)

RECURSIVE OriginalError(_)

extendedError_OriginalError(r) ==
  LET originalError == heap[r].originalError
  IN  IF IsErrorWrapper(originalError)
      THEN OriginalError(originalError)
      ELSE originalError

\* dynamic dispatch of ErrorWrapper.OriginalError
OriginalError(r) ==
  IF heap[r].kind = "ext"
  THEN extendedError_OriginalError(r)
  ELSE heap[r].wrapped

RECURSIVE ErrorText(_)

\* fmt's %v of an error value
FormatError(r) == IF r = Nil THEN <<"<nil>">> ELSE ErrorText(r)

ErrWithReason_Error(r) == <<heap[r].Message, ": ">> \o FormatError(heap[r].Reason)

extendedError_Error(r) == ErrorText(heap[r].originalError)

\* dynamic dispatch of error.Error
ErrorText(r) ==
  CASE heap[r].kind = "plain"  -> heap[r].text
    [] heap[r].kind = "reason" -> ErrWithReason_Error(r)
    [] heap[r].kind = "ext"    -> extendedError_Error(r)
    [] heap[r].kind = "wrap"   -> ErrorText(heap[r].wrapped)

extendedError_Location(r) == FormatCall(heap[r].location)

extendedError_StackTrace(r) == StackTraceToString(heap[r].stackTrace)

-----------------------------------------------------------------------------
(* Reflection *)

NilType == [name |-> "nil", ptr |-> FALSE]

\* reflect.TypeOf
TypeOf(r) ==
  IF r = Nil THEN NilType
  ELSE [name |-> CASE heap[r].kind = "plain"  -> "errors.errorString"
                   [] heap[r].kind = "reason" -> "fail.ErrWithReason"
                   [] heap[r].kind = "ext"    -> "fail.extendedError"
                   [] heap[r].kind = "wrap"   -> "other.Wrapper",
        ptr  |-> heap[r].ptr]

\* if t.Kind() == reflect.Ptr { t = t.Elem() }
Deref(t) == IF t.ptr THEN [t EXCEPT !.ptr = FALSE] ELSE t

-----------------------------------------------------------------------------
(* Queries *)

GetInner(err) == IF IsCompositeError(err) THEN InnerError(err) ELSE Nil

GetLocation(err) ==
  IF IsErrorWithStackTrace(err) THEN extendedError_Location(err) ELSE <<>>

GetStackTrace(err) ==
  IF IsErrorWithStackTrace(err) THEN extendedError_StackTrace(err) ELSE <<>>

GetOriginalError(err) ==
  IF IsErrorWrapper(err) THEN OriginalError(err) ELSE err

GetType(err) ==
  LET errToGetTypeOf == IF IsErrorWrapper(err) THEN OriginalError(err) ELSE err
  IN  TypeOf(errToGetTypeOf)

\* slip: the pointer is taken off the first type only
AreErrorsOfEqualType_FirstDerefOnly(err1, err2) ==
  IF err1 = Nil \/ err2 = Nil THEN FALSE
  ELSE LET err1Type == Deref(TypeOf(err1))
           err2Type == TypeOf(err2)
       IN  err1Type = err2Type

AreErrorsOfEqualType(err1, err2) ==
  IF err1 = Nil \/ err2 = Nil THEN FALSE
  ELSE LET err1Type == Deref(TypeOf(err1))
           err2Type == Deref(TypeOf(err2))
       IN  err1Type = err2Type

\* slip: the inner error is compared, its own causes are not searched
IsError_OneLevel(whereToFind, errToFind) ==
  IF InterfaceEq(whereToFind, errToFind) THEN TRUE
  ELSE IF IsCompositeError(whereToFind)
       THEN InterfaceEq(InnerError(whereToFind), errToFind)
       ELSE FALSE

RECURSIVE IsError_NilNeverFound(_, _)
\* slip: a guard that takes a nil haystack for "not found"
IsError_NilNeverFound(whereToFind, errToFind) ==
  IF whereToFind = Nil THEN FALSE
  ELSE IF InterfaceEq(whereToFind, errToFind) THEN TRUE
  ELSE IF IsCompositeError(whereToFind)
       THEN IsError_NilNeverFound(InnerError(whereToFind), errToFind)
       ELSE FALSE

RECURSIVE IsError(_, _)
IsError(whereToFind, errToFind) ==
  IF InterfaceEq(whereToFind, errToFind) THEN TRUE
  ELSE IF IsCompositeError(whereToFind)
       THEN IsError(InnerError(whereToFind), errToFind)
       ELSE FALSE

RECURSIVE GetErrorByType_LastMatch(_, _)
\* slip: the causes are searched before the error itself is looked at
GetErrorByType_LastMatch(whereToFind, errExampleToFind) ==
  LET deeper == IF IsCompositeError(whereToFind)
                THEN GetErrorByType_LastMatch(InnerError(whereToFind),
                                              errExampleToFind)
                ELSE Nil
  IN  IF deeper # Nil THEN deeper
      ELSE IF AreErrorsOfEqualType(whereToFind, errExampleToFind)
           THEN whereToFind
           ELSE Nil

RECURSIVE GetErrorByType(_, _)
GetErrorByType(whereToFind, errExampleToFind) ==
  IF AreErrorsOfEqualType(whereToFind, errExampleToFind) THEN whereToFind
  ELSE IF IsCompositeError(whereToFind)
       THEN GetErrorByType(InnerError(whereToFind), errExampleToFind)
       ELSE Nil

\* one rendered node: "<type>: <error>" and, under it, the indented trace
DetailsOf(currErr) ==
  LET stackTrace == IF IsErrorWithStackTrace(currErr)
                    THEN extendedError_StackTrace(currErr)
                    ELSE <<>>
  IN  [type  |-> GetType(currErr),
       text  |-> FormatError(currErr),
       trace |-> [i \in 1..Len(stackTrace) |-> <<"    ">> \o stackTrace[i]]]

RECURSIVE GetFullDetails(_)
\* the loop of GetFullDetails, from currErr on
GetFullDetails(currErr) ==
  IF currErr = Nil THEN <<>>
  ELSE <<DetailsOf(currErr)>> \o GetFullDetails(GetInner(currErr))

-----------------------------------------------------------------------------
(* The caller: q is the call that has just returned to it (op, arguments   *)
(* and result); the caller takes the result before its next call.  stk is  *)
(* the caller's stack at its call sites, chain the locals err1, err2,      *)
(* err1c, err2c of the composite scenario.                                 *)

NoCallYet == [op |-> "none", a |-> Nil, b |-> Nil, skip |-> <<>>, out |-> Nil]

NoChain == [err1 |-> Nil, err2 |-> Nil, err1c |-> Nil, err2c |-> Nil]

Idle == q.op = "none"

Returned(op, a, b, skip, out) ==
  q' = [op |-> op, a |-> a, b |-> b, skip |-> skip, out |-> out]

\* a constructor returned: the new error is the last object of h2
Built(h2, op, a, b, skip) ==
  /\ heap' = h2
  /\ Returned(op, a, b, skip, Len(h2))

Init ==
  /\ heap = <<>>
  /\ q = NoCallYet
  /\ stk = MainStack
  /\ chain = NoChain

InitStack ==
  /\ heap = <<>>
  /\ q = NoCallYet
  /\ stk \in Stacks
  /\ chain = NoChain

Continue ==
  /\ ~Idle
  /\ q' = NoCallYet
  /\ UNCHANGED <<heap, stk, chain>>

CallErrorsNew(text, cap) ==
  /\ Idle /\ Len(heap) + 1 <= cap
  /\ Built(ErrorsNew(heap, text), "errors.New", Nil, Nil, <<>>)
  /\ UNCHANGED <<stk, chain>>

MakeErrWithReason(message, reason, ptr, cap) ==
  /\ Idle /\ Len(heap) + 1 <= cap
  /\ Built(Append(heap, ErrWithReason(message, reason, ptr)),
           "ErrWithReason", Nil, reason, <<>>)
  /\ UNCHANGED <<stk, chain>>

MakeWrapper(err, cap) ==
  /\ Idle /\ Len(heap) + 1 <= cap
  /\ Built(Append(heap, foreignWrapper(err)), "Wrapper", err, Nil, <<>>)
  /\ UNCHANGED <<stk, chain>>

CallNew(err, skip, cap) ==
  /\ Idle /\ Len(heap) + 1 <= cap
  /\ Built(New(heap, err, skip, stk), "New", err, Nil, skip)
  /\ UNCHANGED <<stk, chain>>

CallNewWithInner(err, inner, skip, cap) ==
  /\ Idle /\ Len(heap) + 1 <= cap
  /\ Built(NewWithInner(heap, err, inner, skip, stk),
           "NewWithInner", err, inner, skip)
  /\ UNCHANGED <<stk, chain>>

CallNewErrWithReason(message, reason, cap) ==
  /\ Idle /\ Len(heap) + 2 <= cap
  /\ Built(NewErrWithReason(heap, message, reason, stk),
           "NewErrWithReason", Nil, reason, <<>>)
  /\ UNCHANGED <<stk, chain>>

CallNews(text, cap) ==
  /\ Idle /\ Len(heap) + 2 <= cap
  /\ Built(News(heap, text, stk), "News", Nil, Nil, <<>>)
  /\ UNCHANGED <<stk, chain>>

CallNewf(format, a, cap) ==
  /\ Idle /\ Len(heap) + 2 <= cap
  /\ Built(Newf(heap, format, a, stk), "Newf", Nil, Nil, <<>>)
  /\ UNCHANGED <<stk, chain>>

CallStackTrace(skip) ==
  /\ Idle
  /\ Returned("StackTrace", Nil, Nil, skip, StackTrace(skip, stk))
  /\ UNCHANGED <<heap, stk, chain>>

CallGetInner(err) ==
  /\ Idle
  /\ Returned("GetInner", err, Nil, <<>>, GetInner(err))
  /\ UNCHANGED <<heap, stk, chain>>

CallGetLocation(err) ==
  /\ Idle
  /\ Returned("GetLocation", err, Nil, <<>>, GetLocation(err))
  /\ UNCHANGED <<heap, stk, chain>>

CallGetStackTrace(err) ==
  /\ Idle
  /\ Returned("GetStackTrace", err, Nil, <<>>, GetStackTrace(err))
  /\ UNCHANGED <<heap, stk, chain>>

CallGetOriginalError(err) ==
  /\ Idle
  /\ Returned("GetOriginalError", err, Nil, <<>>, GetOriginalError(err))
  /\ UNCHANGED <<heap, stk, chain>>

CallGetType(err) ==
  /\ Idle
  /\ Returned("GetType", err, Nil, <<>>, GetType(err))
  /\ UNCHANGED <<heap, stk, chain>>

CallGetFullDetails(err) ==
  /\ Idle
  /\ Returned("GetFullDetails", err, Nil, <<>>, GetFullDetails(err))
  /\ UNCHANGED <<heap, stk, chain>>

CallIsError(whereToFind, errToFind) ==
  /\ Idle
  /\ Returned("IsError", whereToFind, errToFind, <<>>,
              IsError(whereToFind, errToFind))
  /\ UNCHANGED <<heap, stk, chain>>

CallAreErrorsOfEqualType(err1, err2) ==
  /\ Idle
  /\ Returned("AreErrorsOfEqualType", err1, err2, <<>>,
              AreErrorsOfEqualType(err1, err2))
  /\ UNCHANGED <<heap, stk, chain>>

CallGetErrorByType(whereToFind, errExampleToFind) ==
  /\ Idle
  /\ Returned("GetErrorByType", whereToFind, errExampleToFind, <<>>,
              GetErrorByType(whereToFind, errExampleToFind))
  /\ UNCHANGED <<heap, stk, chain>>

\* Errors built and queried in any order, every call from one call site.
Next ==
  \/ Continue
  \/ \E text \in OneText : CallErrorsNew(text, MaxHeap)
  \/ \E m \in Messages, r \in RefsOrNil, p \in BOOLEAN :
       MakeErrWithReason(m, r, p, MaxHeap)
  \/ \E err \in Refs : MakeWrapper(err, MaxHeap)
  \/ \E err \in Refs : CallNew(err, <<>>, MaxHeap)
  \/ \E err \in Refs, inner \in RefsOrNil :
       CallNewWithInner(err, inner, <<>>, MaxHeap)
  \/ \E m \in Messages, r \in RefsOrNil : CallNewErrWithReason(m, r, MaxHeap)
  \/ \E text \in OneText : CallNews(text, MaxHeap)
  \/ \E f \in Formats, a \in OneArg : CallNewf(f, a, MaxHeap)
  \/ \E err \in RefsOrNil : CallGetInner(err)
  \/ \E err \in RefsOrNil : CallGetOriginalError(err)
  \/ \E err \in RefsOrNil : CallGetType(err)
  \/ \E err \in RefsOrNil : CallGetFullDetails(err)
  \/ \E a \in RefsOrNil, b \in RefsOrNil : CallIsError(a, b)
  \/ \E a \in RefsOrNil, b \in RefsOrNil : CallAreErrorsOfEqualType(a, b)
  \/ \E a \in RefsOrNil, b \in RefsOrNil : CallGetErrorByType(a, b)

Spec == Init /\ [][Next]_vars

Skips == {<<>>} \cup { <<k>> : k \in 0..MaxSkip }

\* Constructors and StackTrace called from every stack, with every skip.
NextStack ==
  \/ Continue
  \/ \E text \in Texts : CallErrorsNew(text, MaxStackHeap)
  \/ \E err \in Refs, skip \in Skips : CallNew(err, skip, MaxStackHeap)
  \/ \E err \in Refs, inner \in RefsOrNil, skip \in Skips :
       CallNewWithInner(err, inner, skip, MaxStackHeap)
  \/ \E m \in Messages, r \in RefsOrNil :
       CallNewErrWithReason(m, r, MaxStackHeap)
  \/ \E text \in Texts : CallNews(text, MaxStackHeap)
  \/ \E f \in Formats, a \in FmtArgs : CallNewf(f, a, MaxStackHeap)
  \/ \E skip \in Skips : CallStackTrace(skip)
  \/ \E err \in RefsOrNil : CallGetLocation(err)
  \/ \E err \in RefsOrNil : CallGetStackTrace(err)

SpecStack == InitStack /\ [][NextStack]_vars

-----------------------------------------------------------------------------
(* The composite scenario: err1 is any error, err2 decorates a plain       *)
(* error, err1c := NewWithInner(err2, err1), err2c := New(m) with m a      *)
(* cause-bearing error whose cause is err1c.                               *)

ChainErr1 ==
  /\ Idle /\ chain.err1 = Nil
  /\ \/ \E f \in Formats, a \in FmtArgs :
          Built(Newf(heap, f, a, stk), "Newf", Nil, Nil, <<>>)
     \/ \E text \in Texts :
          Built(ErrorsNew(heap, text), "errors.New", Nil, Nil, <<>>)
     \/ \E m \in Messages :
          Built(NewErrWithReason(heap, m, Nil, stk),
                "NewErrWithReason", Nil, Nil, <<>>)
  /\ chain' = [chain EXCEPT !.err1 = Len(heap')]
  /\ UNCHANGED stk

ChainErr2 ==
  /\ Idle /\ chain.err1 # Nil /\ chain.err2 = Nil
  /\ \/ \E text \in Texts :
          Built(News(heap, text, stk), "News", Nil, Nil, <<>>)
     \/ \E f \in Formats, a \in FmtArgs :
          Built(Newf(heap, f, a, stk), "Newf", Nil, Nil, <<>>)
     \/ \E text \in Texts :
          LET h1 == ErrorsNew(heap, text)
          IN  Built(New(h1, Len(h1), <<>>, stk), "New", Len(h1), Nil, <<>>)
  /\ chain' = [chain EXCEPT !.err2 = Len(heap')]
  /\ UNCHANGED stk

ChainErr1c ==
  /\ Idle /\ chain.err2 # Nil /\ chain.err1c = Nil
  /\ Built(NewWithInner(heap, chain.err2, chain.err1, <<>>, stk),
           "NewWithInner", chain.err2, chain.err1, <<>>)
  /\ chain' = [chain EXCEPT !.err1c = Len(heap')]
  /\ UNCHANGED stk

ChainErr2c ==
  /\ Idle /\ chain.err1c # Nil /\ chain.err2c = Nil
  /\ \E m \in Messages, p \in BOOLEAN :
       LET h1 == Append(heap, ErrWithReason(m, chain.err1c, p))
       IN  Built(New(h1, Len(h1), <<>>, stk), "New", Len(h1), Nil, <<>>)
  /\ chain' = [chain EXCEPT !.err2c = Len(heap')]
  /\ UNCHANGED stk

NextChain ==
  \/ Continue
  \/ ChainErr1
  \/ ChainErr2
  \/ ChainErr1c
  \/ ChainErr2c
  \/ \E err \in RefsOrNil : CallGetInner(err)

SpecChain == Init /\ [][NextChain]_vars

-----------------------------------------------------------------------------
(* Properties *)

RECURSIVE Walk(_, _)
\* err and the errors reached from it by repeated GetInner, at most fuel
Walk(err, fuel) ==
  IF err = Nil \/ fuel = 0 THEN <<>>
  ELSE <<err>> \o Walk(GetInner(err), fuel - 1)

CauseChain(err) == Walk(err, Len(heap) + 1)

RECURSIVE Unwrap(_, _)
\* the innermost error that is no wrapper, taking off one wrapper at a time
Unwrap(r, fuel) ==
  IF fuel = 0 \/ ~IsErrorWrapper(r) THEN r
  ELSE Unwrap(IF heap[r].kind = "ext" THEN heap[r].originalError
              ELSE heap[r].wrapped, fuel - 1)

Innermost(r) == Unwrap(r, Len(heap) + 1)

IsDecorated(r) == r # Nil /\ heap[r].kind = "ext"

\* C1, as amended: InnerError() of a decorating error returns the cause its
\* original exposes when the original is cause-bearing and that cause is not
\* nil; in every other case it returns the stored inner error.
C1_InnerErrorFallsBackToStored ==
  (q.op = "GetInner" /\ IsDecorated(q.a)) =>
     LET original == heap[q.a].originalError
     IN  q.out = IF IsCompositeError(original) /\ InnerError(original) # Nil
                 THEN InnerError(original)
                 ELSE heap[q.a].innerError

\* C1 witness: the original is cause-bearing with no cause, and the stored
\* inner error came back.
C1_Witness ==
  /\ q.op = "GetInner" /\ IsDecorated(q.a)
  /\ IsCompositeError(heap[q.a].originalError)
  /\ InnerError(heap[q.a].originalError) = Nil
  /\ heap[q.a].innerError # Nil
  /\ q.out = heap[q.a].innerError

\* C1 as stated: once the original is cause-bearing its InnerError() is
\* returned even when nil; the stored inner only when it is not cause-bearing.
C1_DelegationAlwaysWins ==
  (q.op = "GetInner" /\ IsDecorated(q.a)) =>
     LET original == heap[q.a].originalError
     IN  q.out = IF IsCompositeError(original)
                 THEN InnerError(original)
                 ELSE heap[q.a].innerError

\* C2: in the composite scenario GetInner(err2c) is err1c, which reads as
\* err2, and GetInner(err1c) is err1, not nil, which reads as err1.
C2_ChainConstruction ==
  /\ (q.op = "GetInner" /\ q.a # Nil /\ q.a = chain.err2c) =>
        /\ q.out = chain.err1c
        /\ ErrorText(q.out) = ErrorText(chain.err2)
  /\ (q.op = "GetInner" /\ q.a # Nil /\ q.a = chain.err1c) =>
        /\ q.out # Nil
        /\ q.out = chain.err1
        /\ ErrorText(q.out) = ErrorText(chain.err1)

\* C2 witness: the whole chain is built and the second step returned err1.
C2_Witness ==
  /\ chain.err2c # Nil
  /\ q.op = "GetInner" /\ q.a = chain.err1c
  /\ q.out = chain.err1
  /\ ErrorText(chain.err1) # ErrorText(chain.err2)

\* C3: for a needle that is not nil, IsError is true exactly when the needle
\* is the same value as the haystack or as an error of its cause chain.
C3_IsErrorFindsIdentity ==
  (q.op = "IsError" /\ q.b # Nil) =>
     LET c == CauseChain(q.a)
     IN  q.out = (\E i \in 1..Len(c) : InterfaceEq(c[i], q.b))

\* C3 witness: the needle was found at the end of a chain of three errors.
C3_Witness ==
  /\ q.op = "IsError" /\ q.b # Nil /\ q.a # q.b
  /\ q.out = TRUE
  /\ Len(CauseChain(q.a)) >= 3

\* C4: GetErrorByType returns the first error of the chain, the root
\* included, that AreErrorsOfEqualType matches with the example, else nil.
C4_GetErrorByTypeFirstMatch ==
  q.op = "GetErrorByType" =>
     LET c == CauseChain(q.a)
         matches == {i \in 1..Len(c) : AreErrorsOfEqualType(c[i], q.b)}
     IN  IF matches = {} THEN q.out = Nil
         ELSE \E i \in matches :
                /\ \A j \in matches : i <= j
                /\ q.out = c[i]

\* C4 witness: two errors of the chain match and the outer one came back.
C4_Witness ==
  /\ q.op = "GetErrorByType" /\ q.out # Nil
  /\ LET c == CauseChain(q.a)
     IN  \E i, j \in 1..Len(c) :
           /\ i < j /\ q.out = c[i]
           /\ AreErrorsOfEqualType(c[i], q.b)
           /\ AreErrorsOfEqualType(c[j], q.b)
           /\ \A k \in 1..(i - 1) : ~AreErrorsOfEqualType(c[k], q.b)
           /\ i > 1

\* C5: AreErrorsOfEqualType is false when an argument is nil, otherwise
\* true exactly when the types are the same once a pointer is taken off on
\* either side, and it is symmetric.
C5_EqualTypeUpToPointer ==
  q.op = "AreErrorsOfEqualType" =>
     /\ (q.a = Nil \/ q.b = Nil) => q.out = FALSE
     /\ (q.a # Nil /\ q.b # Nil) =>
           q.out = (TypeOf(q.a).name = TypeOf(q.b).name)
     /\ q.out = AreErrorsOfEqualType(q.b, q.a)

\* C5 witness: a value and a pointer to a value of one type were equal.
C5_Witness ==
  /\ q.op = "AreErrorsOfEqualType" /\ q.a # Nil /\ q.b # Nil
  /\ ~heap[q.a].ptr /\ heap[q.b].ptr
  /\ q.out = TRUE

\* C6 as stated: GetOriginalError is idempotent, its result unwraps no
\* further.
C6_GetOriginalErrorIdempotent ==
  q.op = "GetOriginalError" =>
     /\ GetOriginalError(q.out) = q.out
     /\ ~IsErrorWrapper(q.out)

\* C7 as stated: every type GetFullDetails renders is the type of the
\* innermost error under the node's wrappers, never the decorator's own.
C7_DetailsSeePastDecoration ==
  q.op = "GetFullDetails" =>
     LET c == CauseChain(q.a)
     IN  \A i \in 1..Len(q.out) :
           /\ q.out[i].type = TypeOf(Innermost(c[i]))
           /\ q.out[i].type.name # "fail.extendedError"

ExtraSkip == IF Len(q.skip) > 0 THEN q.skip[1] ELSE 0

\* C8: the location of an error built by New, NewWithInner,
\* NewErrWithReason, News or Newf is the frame ExtraSkip callers above the
\* direct caller of that function: with no extra skip the direct caller,
\* never a frame of the library.  Unless that frame belongs to the runtime,
\* it is the first frame of the stack trace, and of StackTrace() as well.
C8_LocationIsTheCaller ==
  /\ (q.op \in {"New", "NewWithInner", "NewErrWithReason", "News", "Newf"}
        /\ ExtraSkip + 1 <= Len(stk)) =>
        LET target == stk[ExtraSkip + 1]
        IN  /\ heap[q.out].location = target
            /\ heap[q.out].location.file # "fail.go"
            /\ ~target.goroot =>
                  /\ heap[q.out].stackTrace # <<>>
                  /\ heap[q.out].stackTrace[1] = target
  /\ (q.op = "StackTrace" /\ ExtraSkip + 1 <= Len(stk)) =>
        LET target == stk[ExtraSkip + 1]
        IN  ~target.goroot =>
               /\ q.out # <<>>
               /\ q.out[1] = FormatCall(target)

\* C8 witness: News, three library frames deep, called with two callers on
\* the stack, located its direct caller.
C8_Witness ==
  /\ q.op = "News" /\ Len(stk) = 3
  /\ heap[q.out].location = stk[1]
  /\ heap[q.out].stackTrace = <<stk[1], stk[2]>>

\* C9: the cause chain of every error ends after at most as many errors as
\* exist, without meeting an error twice, and GetFullDetails renders one
\* node for each error of it.
C9_ChainsEnd ==
  /\ \A r \in Refs :
       LET c == CauseChain(r)
       IN  /\ Len(c) <= Len(heap)
           /\ \A i, j \in 1..Len(c) : i < j => c[i] > c[j]
           /\ GetInner(c[Len(c)]) = Nil
  /\ q.op = "GetFullDetails" => Len(q.out) = Len(CauseChain(q.a))

\* C9 witness: GetFullDetails walked a chain of three errors to its end.
C9_Witness ==
  /\ q.op = "GetFullDetails"
  /\ Len(q.out) = 3
  /\ GetInner(CauseChain(q.a)[3]) = Nil

\* C10: with a nil needle IsError is true exactly when the haystack is nil
\* or the last error of its chain is cause-bearing.
C10_NilNeedle ==
  (q.op = "IsError" /\ q.b = Nil) =>
     LET c == CauseChain(q.a)
     IN  q.out = (q.a = Nil \/ IsCompositeError(c[Len(c)]))

\* C10 witness: a decorated plain error "is" the nil error.
C10_Witness ==
  /\ q.op = "IsError" /\ q.b = Nil
  /\ IsDecorated(q.a)
  /\ ~IsCompositeError(heap[q.a].originalError)
  /\ q.out = TRUE

====
